---- MODULE Spec2Model ----
(***************************************************************************)
(* Near-Earth objects and their close approaches (models.py, extract.py). *)
(*                                                                         *)
(* Python objects live in two heaps: neos (NearEarthObject instances) and  *)
(* cas (CloseApproach instances).  An object's identity is its index in    *)
(* its heap; the reference CloseApproach.neo is a heap index, 0 for None.  *)
(* Python values are records [t |-> type name, v |-> text of str(value)].  *)
(***************************************************************************)
EXTENDS Naturals, Sequences, FiniteSets

VARIABLES neos, cas, call, ret, pc, idx

vars == <<neos, cas, call, ret, pc, idx>>

----------------------------------------------------------------------------
(* Bounds of the model. *)

MaxNeos == 2
MaxApproaches == 1
MaxAppend == 2
MaxLoadNeos == 3
MaxLoadApproaches == 3

----------------------------------------------------------------------------
(* Python values. *)

PyNone == [t |-> "NoneType", v |-> "None"]
Absent == [t |-> "absent", v |-> ""]
Str(s) == [t |-> "str", v |-> s]
Float(s) == [t |-> "float", v |-> s]
Bool(b) == [t |-> "bool", v |-> IF b THEN "True" ELSE "False"]
Datetime(s) == [t |-> "datetime", v |-> s]

(* str(x): the text of the value, as a str. *)
PyStr(x) == Str(x.v)

(* bool(x): truth value testing. *)
PyBool(x) ==
    CASE x.t = "str" -> x.v # ""
      [] x.t = "NoneType" -> FALSE
      [] x.t = "bool" -> x.v = "True"
      [] x.t = "float" -> x.v \notin {"0.0", "-0.0"}
      [] OTHER -> TRUE

(* float(x) on the strings the model supplies: the text of the parsed     *)
(* float, or "" where float() raises ValueError.                          *)
FloatText(s) ==
    CASE s = "16.84" -> "16.84"
      [] s = "0.0921" -> "0.0921"
      [] s = "7" -> "7.0"
      [] s = "nan" -> "nan"
      [] OTHER -> ""

FloatRaises(x) == x.t # "float" /\ (x.t # "str" \/ FloatText(x.v) = "")

PyFloat(x) == IF x.t = "float" THEN x ELSE Float(FloatText(x.v))

(* A keyword argument that was not passed takes the default of the        *)
(* signature.                                                             *)
Default(x, d) == IF x.t = "absent" THEN d ELSE x

(* helpers.cd_to_datetime and helpers.datetime_to_str: the timestamp has *)
(* seconds (its text is that of str(datetime)), the display string the   *)
(* format 'YYYY-MM-DD HH:MM' without them.                               *)
CdTexts == {"1900-12-27 01:30", "2020-01-01 00:00"}

cd_to_datetime(cd) == Datetime(cd.v \o ":00")

datetime_to_str(dt) == Str(CHOOSE s \in CdTexts : s \o ":00" = dt.v)

----------------------------------------------------------------------------
(* Inputs: the rows of the two data files. *)

NeoRows ==
    { [pdes |-> Str("433"), name |-> Str("Eros"), diameter |-> Str("16.84"),
       pha |-> Str("N"), extra |-> <<>>],
      [pdes |-> Str("433"), name |-> Str("Eros"), diameter |-> Str("16.84"),
       pha |-> Absent, extra |-> <<>>],
      [pdes |-> Str("2015 AB"), name |-> Str(""), diameter |-> Str(""),
       pha |-> Str("Y"), extra |-> <<>>],
      [pdes |-> Str("2015 AB"), name |-> Absent, diameter |-> Absent,
       pha |-> Str("n"), extra |-> <<>>],
      [pdes |-> Str(""), name |-> Str(""), diameter |-> PyNone,
       pha |-> Str(""), extra |-> <<>>],
      [pdes |-> Str(""), name |-> Absent, diameter |-> Str("nan"),
       pha |-> PyNone, extra |-> <<>>],
      [pdes |-> Str("433"), name |-> Str("Eros"), diameter |-> Str("abc"),
       pha |-> Str("Y"), extra |-> <<>>] }

ApproachRows ==
    { [des |-> Str("433"), cd |-> Str("1900-12-27 01:30"),
       dist |-> Str("0.0921"), v_rel |-> Str("7"), extra |-> <<>>],
      [des |-> Str("2015 AB"), cd |-> Str("2020-01-01 00:00"),
       dist |-> Str("0.0921"), v_rel |-> Str("16.84"), extra |-> <<>>],
      [des |-> Str("unknown-object"), cd |-> Str("1900-12-27 01:30"),
       dist |-> Float("0.0921"), v_rel |-> Str("7"), extra |-> <<>>],
      [des |-> Str("433"), cd |-> Str("1900-12-27 01:30"),
       dist |-> Str("abc"), v_rel |-> Str("7"), extra |-> <<>>] }

Extensions == {"csv", "json", "xml"}

----------------------------------------------------------------------------
(* Outcomes of a call. *)

NoValue == <<>>

Returned(obj, value) == [kind |-> "return", exc |-> "", obj |-> obj, value |-> value]

Raised(exc) == [kind |-> "raise", exc |-> exc, obj |-> 0, value |-> NoValue]

NoCall == [op |-> "none"]

NoRet == [kind |-> "none", exc |-> "", obj |-> 0, value |-> NoValue]

----------------------------------------------------------------------------
(* NearEarthObject.__init__ *)

NeoName(name) == IF PyBool(PyStr(name)) THEN PyStr(name) ELSE PyNone

NeoDiameterArg(diameter) == IF ~PyBool(diameter) THEN Str("nan") ELSE diameter

(* Variant: only the flag 'Y' counts as hazardous. *)
NeoHazardousOnlyY(pha) == pha = Str("Y")

NeoHazardous(pha) == PyBool(IF pha = Str("N") THEN Str("") ELSE pha)

NeoInitRaises(row) ==
    FloatRaises(NeoDiameterArg(Default(row.diameter, Str(""))))

NeoInit(row) ==
    [designation |-> PyStr(row.pdes),
     name |-> NeoName(Default(row.name, Str(""))),
     diameter |-> PyFloat(NeoDiameterArg(Default(row.diameter, Str("")))),
     hazardous |-> Bool(NeoHazardous(Default(row.pha, Str("N")))),
     approaches |-> <<>>,
     extra_information |-> row.extra]

(* CloseApproach.__init__ *)

CaInitRaises(row) == FloatRaises(row.dist) \/ FloatRaises(row.v_rel)

CaInit(row) ==
    [_designation |-> PyStr(row.des),
     time |-> cd_to_datetime(row.cd),
     distance |-> PyFloat(row.dist),
     velocity |-> PyFloat(row.v_rel),
     neo |-> 0,
     extra_information |-> row.extra]

----------------------------------------------------------------------------
(* CloseApproach.assign_neo.  The dictionary argument is given by the set *)
(* m of the NearEarthObject instances it holds, each under the key of its *)
(* own designation.                                                       *)

Keys(heap, m) == {heap[b].designation : b \in m}

IsDict(heap, m) ==
    \A b1, b2 \in m : heap[b1].designation = heap[b2].designation => b1 = b2

Dicts(heap) == {m \in SUBSET (1..Len(heap)) : IsDict(heap, m)}

GetItem(heap, m, key) == CHOOSE b \in m : heap[b].designation = key

(* Variants: the approach is inserted at the front; is not recorded. *)
PrependApproach(approaches, self) == <<self>> \o approaches

DropApproach(approaches, self) == approaches

AppendApproach(approaches, self) == Append(approaches, self)

AssignNeoRef(heap, ca, m) ==
    IF ca._designation \in Keys(heap, m)
    THEN GetItem(heap, m, ca._designation)
    ELSE 0

AssignNeoCas(heap, caheap, self, m) ==
    [caheap EXCEPT ![self].neo = AssignNeoRef(heap, caheap[self], m)]

(* Variant: the approach is recorded twice on a hit. *)
AssignNeoNeosTwice(heap, caheap, self, m) ==
    IF caheap[self]._designation \in Keys(heap, m)
    THEN LET b == GetItem(heap, m, caheap[self]._designation)
         IN [heap EXCEPT ![b].approaches = Append(Append(@, self), self)]
    ELSE heap

AssignNeoNeos(heap, caheap, self, m) ==
    IF caheap[self]._designation \in Keys(heap, m)
    THEN LET b == GetItem(heap, m, caheap[self]._designation)
         IN [heap EXCEPT ![b].approaches = AppendApproach(@, self)]
    ELSE heap

----------------------------------------------------------------------------
(* CloseApproach.serialize *)

fieldnames ==
    <<"datetime_utc", "distance_au", "velocity_km_s", "designation",
      "name", "diameter_km", "potentially_hazardous">>

time_str(ca) == datetime_to_str(ca.time)

Zip(ks, vs) == [i \in 1..Len(ks) |-> [k |-> ks[i], v |-> vs[i]]]

Dict(items) == [t |-> "dict", v |-> items]

(* Variant: a missing name is passed on as None. *)
SerializeNameRaw(neo) == neo.name

SerializeName(neo) == IF neo.name = PyNone THEN Str("") ELSE neo.name

Attributes(ca, neo) ==
    <<time_str(ca), ca.distance, ca.velocity, neo.designation,
      SerializeName(neo), neo.diameter, neo.hazardous>>

CsvValues(attributes) == [i \in 1..Len(attributes) |-> PyStr(attributes[i])]

(* Variant: an unrecognized extension falls through and returns None. *)
SerializeLinkedSilent(ca, neo, extension) ==
    LET attributes == Attributes(ca, neo)
    IN  IF extension = "csv"
        THEN Returned(0, Zip(fieldnames, CsvValues(attributes)))
        ELSE IF extension = "json"
        THEN Returned(0, Zip(SubSeq(fieldnames, 1, 3), SubSeq(attributes, 1, 3))
                         \o << [k |-> "neo",
                                v |-> Dict(Zip(SubSeq(fieldnames, 4, 7),
                                               SubSeq(attributes, 4, 7)))] >>)
        ELSE Returned(0, NoValue)

SerializeLinked(ca, neo, extension) ==
    LET attributes == Attributes(ca, neo)
    IN  IF extension = "csv"
        THEN Returned(0, Zip(fieldnames, CsvValues(attributes)))
        ELSE IF extension = "json"
        THEN Returned(0, Zip(SubSeq(fieldnames, 1, 3), SubSeq(attributes, 1, 3))
                         \o << [k |-> "neo",
                                v |-> Dict(Zip(SubSeq(fieldnames, 4, 7),
                                               SubSeq(attributes, 4, 7)))] >>)
        ELSE IF extension \notin {"csv", "json"}
        THEN Raised("ValueError")
        ELSE Returned(0, NoValue)

(* Variant: the extension is validated before the NEO is read. *)
SerializeOutcomeExtensionFirst(heap, ca, extension) ==
    IF extension \notin {"csv", "json"}
    THEN Raised("ValueError")
    ELSE IF ca.neo = 0
    THEN Raised("AttributeError")
    ELSE SerializeLinked(ca, heap[ca.neo], extension)

SerializeOutcome(heap, ca, extension) ==
    IF ca.neo = 0
    THEN Raised("AttributeError")
    ELSE SerializeLinked(ca, heap[ca.neo], extension)

----------------------------------------------------------------------------
(* The effects of the two constructors on the heaps. *)

ConstructNeo(row) ==
    /\ call' = [op |-> "NearEarthObject", row |-> row]
    /\ IF NeoInitRaises(row)
       THEN /\ ret' = Raised("ValueError")
            /\ UNCHANGED neos
       ELSE /\ neos' = Append(neos, NeoInit(row))
            /\ ret' = Returned(Len(neos) + 1, NoValue)
    /\ UNCHANGED cas

ConstructCa(row) ==
    /\ call' = [op |-> "CloseApproach", row |-> row]
    /\ IF CaInitRaises(row)
       THEN /\ ret' = Raised("ValueError")
            /\ UNCHANGED cas
       ELSE /\ cas' = Append(cas, CaInit(row))
            /\ ret' = Returned(Len(cas) + 1, NoValue)
    /\ UNCHANGED neos

CallAssignNeo(self, m) ==
    /\ call' = [op |-> "assign_neo", self |-> self, neos |-> m]
    /\ cas' = AssignNeoCas(neos, cas, self, m)
    /\ neos' = AssignNeoNeos(neos, cas, self, m)
    /\ ret' = Returned(self, NoValue)

----------------------------------------------------------------------------
(* The operations of models.py, called in any order with any arguments. *)

Init ==
    /\ neos = <<>>
    /\ cas = <<>>
    /\ call = NoCall
    /\ ret = NoRet
    /\ pc = "api"
    /\ idx = 0

NewNeo(row) ==
    /\ pc = "api"
    /\ Len(neos) < MaxNeos
    /\ ConstructNeo(row)
    /\ UNCHANGED <<pc, idx>>

NewApproach(row) ==
    /\ pc = "api"
    /\ Len(cas) < MaxApproaches
    /\ ConstructCa(row)
    /\ UNCHANGED <<pc, idx>>

AssignNeo(self, m) ==
    /\ pc = "api"
    /\ AssignNeoRef(neos, cas[self], m) # 0 =>
          Len(neos[AssignNeoRef(neos, cas[self], m)].approaches) < MaxAppend
    /\ CallAssignNeo(self, m)
    /\ UNCHANGED <<pc, idx>>

Serialize(self, extension) ==
    /\ pc = "api"
    /\ call' = [op |-> "serialize", self |-> self, extension |-> extension]
    /\ ret' = SerializeOutcome(neos, cas[self], extension)
    /\ UNCHANGED <<neos, cas, pc, idx>>

Next ==
    \/ \E row \in NeoRows : NewNeo(row)
    \/ \E row \in ApproachRows : NewApproach(row)
    \/ \E self \in 1..Len(cas) : \E m \in Dicts(neos) : AssignNeo(self, m)
    \/ \E self \in 1..Len(cas) : \E extension \in Extensions :
          Serialize(self, extension)

Spec == Init /\ [][Next]_vars

----------------------------------------------------------------------------
(* The linking pass: load_neos, load_approaches, then assign_neo once on  *)
(* every close approach, in the order loaded, with the dictionary of all  *)
(* the loaded NEOs by designation.                                        *)

(* {neo.designation: neo for neo in neos}: a later NEO replaces an        *)
(* earlier one of the same designation.                                   *)
NeoDict(heap) ==
    {b \in 1..Len(heap) :
        \A b2 \in 1..Len(heap) :
            heap[b2].designation = heap[b].designation => b2 <= b}

LinkInit ==
    /\ neos = <<>>
    /\ cas = <<>>
    /\ call = NoCall
    /\ ret = NoRet
    /\ pc = "load_neos"
    /\ idx = 0

LoadNeosRow(row) ==
    /\ pc = "load_neos"
    /\ Len(neos) < MaxLoadNeos
    /\ ConstructNeo(row)
    /\ pc' = IF NeoInitRaises(row) THEN "raised" ELSE pc
    /\ UNCHANGED idx

LoadNeosReturn ==
    /\ pc = "load_neos"
    /\ pc' = "load_approaches"
    /\ UNCHANGED <<neos, cas, call, ret, idx>>

LoadApproachesRow(row) ==
    /\ pc = "load_approaches"
    /\ Len(cas) < MaxLoadApproaches
    /\ ConstructCa(row)
    /\ pc' = IF CaInitRaises(row) THEN "raised" ELSE pc
    /\ UNCHANGED idx

LoadApproachesReturn ==
    /\ pc = "load_approaches"
    /\ pc' = "link"
    /\ idx' = 1
    /\ UNCHANGED <<neos, cas, call, ret>>

LinkStep ==
    /\ pc = "link"
    /\ idx <= Len(cas)
    /\ CallAssignNeo(idx, NeoDict(neos))
    /\ idx' = idx + 1
    /\ UNCHANGED pc

LinkReturn ==
    /\ pc = "link"
    /\ idx > Len(cas)
    /\ pc' = "linked"
    /\ UNCHANGED <<neos, cas, call, ret, idx>>

LinkNext ==
    \/ \E row \in NeoRows : LoadNeosRow(row)
    \/ LoadNeosReturn
    \/ \E row \in ApproachRows : LoadApproachesRow(row)
    \/ LoadApproachesReturn
    \/ LinkStep
    \/ LinkReturn

SpecLink == LinkInit /\ [][LinkNext]_vars

----------------------------------------------------------------------------
(* Vocabulary of the properties. *)

NeoIds == 1..Len(neos)

CaIds == 1..Len(cas)

Occurrences(seq, x) == Cardinality({i \in 1..Len(seq) : seq[i] = x})

Holders(e) == {b \in NeoIds : Occurrences(neos[b].approaches, e) > 0}

Matches(e) == {b \in NeoIds : neos[b].designation = cas[e]._designation}

UniqueDesignations ==
    \A b1, b2 \in NeoIds : neos[b1].designation = neos[b2].designation => b1 = b2

(* The ids of the first n close approaches that refer to designation d,   *)
(* in the order supplied.                                                 *)
RECURSIVE Referring(_, _)
Referring(d, n) ==
    IF n = 0 THEN <<>>
    ELSE IF cas[n]._designation = d
         THEN Append(Referring(d, n - 1), n)
         ELSE Referring(d, n - 1)

----------------------------------------------------------------------------
(* C1: after the linking pass over NEOs of unique designations, a close   *)
(* approach whose designation is that of an NEO refers to that NEO and    *)
(* occurs exactly once in its approaches; a close approach whose          *)
(* designation is that of no NEO has neo None and occurs in no NEO's      *)
(* approaches.                                                            *)
C1_LinkingPass ==
    (pc = "linked" /\ UniqueDesignations) =>
        \A e \in CaIds :
            /\ \A b \in Matches(e) :
                  /\ cas[e].neo = b
                  /\ Occurrences(neos[b].approaches, e) = 1
            /\ Matches(e) = {} => (cas[e].neo = 0 /\ Holders(e) = {})

C1_Witness ==
    /\ pc = "linked"
    /\ UniqueDesignations
    /\ Len(neos) >= 2
    /\ \E e \in CaIds : Matches(e) # {}
    /\ \E e \in CaIds : Matches(e) = {} /\ cas[e]._designation = Str("unknown-object")

(* C2: in every state, a close approach occurs in the approaches of at    *)
(* most one NEO, and a close approach that occurs in the approaches of an *)
(* NEO has that NEO as its neo.                                           *)
C2_Claim ==
    \A e \in CaIds :
        /\ Cardinality(Holders(e)) <= 1
        /\ \A b \in Holders(e) : cas[e].neo = b

(* C3: in every state, a close approach whose neo is not None occurs in   *)
(* the approaches of that NEO.                                            *)
C3_InverseHolds ==
    \A e \in CaIds : cas[e].neo # 0 => cas[e].neo \in Holders(e)

C3_Witness ==
    /\ call.op = "serialize"
    /\ \E e \in CaIds :
          /\ cas[e].neo # 0
          /\ Occurrences(neos[cas[e].neo].approaches, e) = 2

(* C4: during and after the linking pass over NEOs of unique              *)
(* designations, the approaches of every NEO are the close approaches     *)
(* assigned so far that refer to its designation, in the order supplied.  *)
C4_OrderPreserved ==
    (pc \in {"link", "linked"} /\ UniqueDesignations) =>
        \A b \in NeoIds :
            neos[b].approaches = Referring(neos[b].designation, idx - 1)

C4_Witness ==
    /\ pc = "linked"
    /\ UniqueDesignations
    /\ \E b \in NeoIds : neos[b].approaches = <<1, 3>>
    /\ \E b \in NeoIds : neos[b].approaches = <<2>>

(* C5: serialize of a linked close approach with an extension other than  *)
(* 'csv' and 'json' raises ValueError, returns no mapping and changes     *)
(* neither heap; with 'csv' or 'json' it never raises ValueError.         *)
C5_UnknownExtension ==
    [][call'.op = "serialize" =>
         /\ (cas[call'.self].neo # 0 /\ call'.extension \notin {"csv", "json"}) =>
               /\ ret' = Raised("ValueError")
               /\ neos' = neos
               /\ cas' = cas
         /\ call'.extension \in {"csv", "json"} => ret'.exc # "ValueError"]_vars

C5_Witness ==
    /\ call.op = "serialize"
    /\ call.extension = "xml"
    /\ cas[call.self].neo # 0
    /\ ret.exc = "ValueError"

(* C6: serialize of a close approach whose neo is None raises             *)
(* AttributeError for every extension, recognized or not, and returns no  *)
(* mapping.                                                               *)
C6_UnlinkedFaults ==
    (call.op = "serialize" /\ cas[call.self].neo = 0) =>
        ret = Raised("AttributeError")

C6_Witness ==
    /\ call.op = "serialize"
    /\ call.extension = "xml"
    /\ cas[call.self].neo = 0
    /\ Len(neos) > 0
    /\ ret.exc = "AttributeError"

(* C7: serialize of a linked close approach returns, for 'csv', the seven *)
(* keys in order with the str() of each attribute, and for 'json' the     *)
(* first three keys and 'neo' with the attributes themselves; designation *)
(* is that of the NEO and name is '' exactly when the NEO has no name.    *)
C7_Shapes ==
    (call.op = "serialize" /\ ret.kind = "return") =>
        LET ca == cas[call.self]
            neo == neos[ca.neo]
            native == <<time_str(ca), ca.distance, ca.velocity, neo.designation,
                        IF neo.name.t = "NoneType" THEN Str("") ELSE neo.name,
                        neo.diameter, neo.hazardous>>
            keys == <<"datetime_utc", "distance_au", "velocity_km_s", "designation",
                      "name", "diameter_km", "potentially_hazardous">>
            out == ret.value
        IN  /\ ca.neo # 0
            /\ native[1].t = "str"
            /\ native[5].t = "str"
            /\ (native[5] = Str("")) <=> (neo.name = PyNone)
            /\ call.extension = "csv" =>
                  /\ Len(out) = 7
                  /\ \A i \in 1..7 :
                        /\ out[i].k = keys[i]
                        /\ out[i].v.t = "str"
                        /\ out[i].v.v = native[i].v
            /\ call.extension = "json" =>
                  /\ Len(out) = 4
                  /\ \A i \in 1..3 : out[i].k = keys[i] /\ out[i].v = native[i]
                  /\ out[4].k = "neo"
                  /\ out[4].v.t = "dict"
                  /\ Len(out[4].v.v) = 4
                  /\ \A i \in 1..4 :
                        /\ out[4].v.v[i].k = keys[i + 3]
                        /\ out[4].v.v[i].v = native[i + 3]
            /\ call.extension \in {"csv", "json"}

C7_Witness ==
    /\ call.op = "serialize"
    /\ ret.kind = "return"
    /\ call.extension = "json"
    /\ neos[cas[call.self].neo].name = PyNone
    /\ neos[cas[call.self].neo].diameter = Float("nan")

(* C8: the designation of every NearEarthObject is never empty, and no    *)
(* operation changes it.                                                  *)
C8_Claim ==
    [][/\ \A b \in 1..Len(neos') : neos'[b].designation # Str("")
       /\ \A b \in 1..Len(neos) : neos'[b].designation = neos[b].designation]_vars

(* C9: the constructor of NearEarthObject sets hazardous to False exactly *)
(* when pha is 'N', empty, None or not given, and to True otherwise; it   *)
(* leaves approaches empty and changes no other object.                   *)
C9_Hazardous ==
    [][(call'.op = "NearEarthObject" /\ ret'.kind = "return") =>
         /\ cas' = cas
         /\ Len(neos') = Len(neos) + 1
         /\ SubSeq(neos', 1, Len(neos)) = neos
         /\ ret'.obj = Len(neos')
         /\ neos'[ret'.obj].approaches = <<>>
         /\ (neos'[ret'.obj].hazardous = Bool(FALSE))
               <=> (call'.row.pha \in {Str("N"), Str(""), PyNone, Absent})
         /\ (neos'[ret'.obj].hazardous = Bool(TRUE))
               <=> (call'.row.pha \notin {Str("N"), Str(""), PyNone, Absent})]_vars

C9_Witness ==
    /\ call.op = "NearEarthObject"
    /\ ret.kind = "return"
    /\ call.row.pha = Str("n")
    /\ neos[ret.obj].hazardous = Bool(TRUE)
    /\ Len(neos) = 2

(* C10: the neo of a close approach starts None; once assign_neo has set  *)
(* it to an NEO no later operation changes it; a miss leaves it None,     *)
(* returns normally and changes no NEO's approaches.                      *)
C10_Claim ==
    [][/\ \A e \in 1..Len(cas) : cas[e].neo # 0 => cas'[e].neo = cas[e].neo
       /\ \A e \in (Len(cas) + 1)..Len(cas') : cas'[e].neo = 0
       /\ (/\ call'.op = "assign_neo"
           /\ cas[call'.self]._designation \notin Keys(neos, call'.neos)) =>
              /\ cas[call'.self].neo = 0 => cas'[call'.self].neo = 0
              /\ ret'.kind = "return"
              /\ neos' = neos]_vars

====
